---- MODULE Spec2Model ----
(***************************************************************************)
(* rodio, src/decoder/mod.rs: the format dispatcher Decoder::new and the   *)
(* Decoder facade (Iterator + Source) over the WAV, Vorbis and FLAC        *)
(* decoders.  The three concrete decoders (decoder/wav.rs, flac.rs and     *)
(* vorbis.rs) are modelled from their contract: a probe reads a header     *)
(* from the input and either keeps the input or seeks back and returns it. *)
(* An input is a byte string with a read position; one byte is one sample. *)
(***************************************************************************)
EXTENDS Integers, Sequences, FiniteSets, TLC

\* ------------------------------------------------------------- bounds
\* longest input, in bytes
MaxLen == 5
\* largest byte value (the alphabet is 0..MaxByte)
MaxByte == 3
\* next() calls that may return None on one decoder
MaxNone == 2

Byte == 0..MaxByte
Inputs == UNION {[1..n -> Byte] : n \in 0..MaxLen}
\* two independent constructions from the same bytes
Copies == {1, 2}

\* ------------------------------------------------------------- Option, Result
None == <<>>
Some(v) == <<v>>
Ok(v) == [ok |-> TRUE, val |-> v]
Err(v) == [ok |-> FALSE, val |-> v]

\* ------------------------------------------------------------- R: Read + Seek
\* a reader over `bytes`, `pos` bytes of which have been consumed
Cursor(bytes) == [bytes |-> bytes, pos |-> 0]
Remaining(r) == Len(r.bytes) - r.pos
\* Read::read of one byte: the byte (None at end of input) and the advanced reader
ReadByte(r) ==
    IF r.pos < Len(r.bytes)
    THEN [byte |-> Some(r.bytes[r.pos + 1]), reader |-> [r EXCEPT !.pos = @ + 1]]
    ELSE [byte |-> None, reader |-> r]
\* Seek::seek(SeekFrom::Start(p))
SeekStart(r, p) == [r EXCEPT !.pos = p]

\* ------------------------------------------------------------- formats
\* signatures: WAV and FLAC at the first byte, Vorbis anywhere (capture pattern)
WavMagic == 1
FlacMagic == 2
VorbisMagic == 3
\* the format byte of a header gives the channel count and the sample rate
FmtChannels(f) == f
FmtRate(f) == 8000 * f
\* a byte of sample data as a 16-bit signed sample
ToI16(b) == b

\* wav::WavDecoder::new: header <<WavMagic, fmt, frames>>, then the samples
WavDecoderNew(data) ==
    LET start == data.pos
        m == ReadByte(data)
        f == ReadByte(m.reader)
        n == ReadByte(f.reader)
        accepts == /\ m.byte = Some(WavMagic)
                   /\ f.byte # None
                   /\ f.byte[1] >= 1
                   /\ n.byte # None
    IN  IF accepts
        THEN Ok([reader |-> n.reader, channels |-> FmtChannels(f.byte[1]),
                 rate |-> FmtRate(f.byte[1]), frames |-> n.byte[1], read |-> 0])
        ELSE Err(SeekStart(n.reader, start))

\* flac::FlacDecoder::new: header <<FlacMagic, fmt>>, then the samples
FlacDecoderNew(data) ==
    LET start == data.pos
        m == ReadByte(data)
        f == ReadByte(m.reader)
        accepts == /\ m.byte = Some(FlacMagic)
                   /\ f.byte # None
                   /\ f.byte[1] >= 1
    IN  IF accepts
        THEN Ok([reader |-> f.reader, channels |-> FmtChannels(f.byte[1]),
                 rate |-> FmtRate(f.byte[1])])
        ELSE Err(SeekStart(f.reader, start))

\* the Ogg reader skips bytes up to the capture pattern
RECURSIVE SyncCapture(_)
SyncCapture(r) ==
    LET b == ReadByte(r)
    IN  IF b.byte = None THEN [found |-> FALSE, reader |-> b.reader]
        ELSE IF b.byte = Some(VorbisMagic) THEN [found |-> TRUE, reader |-> b.reader]
        ELSE SyncCapture(b.reader)

\* vorbis::VorbisDecoder::new: junk, then <<VorbisMagic, fmt>>, then the samples
VorbisDecoderNew(data) ==
    LET start == data.pos
        s == SyncCapture(data)
        f == ReadByte(s.reader)
        accepts == /\ s.found
                   /\ f.byte # None
                   /\ f.byte[1] >= 1
    IN  IF accepts
        THEN Ok([reader |-> f.reader, channels |-> FmtChannels(f.byte[1]),
                 rate |-> FmtRate(f.byte[1])])
        ELSE Err(SeekStart(f.reader, start))

\* ------------------------------------------------------------- concrete decoders
\* each next() returns [ret |-> Option<i16>, source |-> the decoder afterwards]
WavNext(d) ==
    LET b == ReadByte(d.reader)
    IN  IF d.read < d.channels * d.frames /\ b.byte # None
        THEN [ret |-> Some(ToI16(b.byte[1])),
              source |-> [d EXCEPT !.reader = b.reader, !.read = @ + 1]]
        ELSE [ret |-> None, source |-> d]
StreamNext(d) ==
    LET b == ReadByte(d.reader)
    IN  IF b.byte # None
        THEN [ret |-> Some(ToI16(b.byte[1])), source |-> [d EXCEPT !.reader = b.reader]]
        ELSE [ret |-> None, source |-> d]
VorbisNext(d) == StreamNext(d)
FlacNext(d) == StreamNext(d)

WavLeft(d) ==
    IF d.channels * d.frames - d.read < Remaining(d.reader)
    THEN d.channels * d.frames - d.read
    ELSE Remaining(d.reader)
WavSizeHint(d) == <<WavLeft(d), Some(WavLeft(d))>>
VorbisSizeHint(d) == <<0, None>>
FlacSizeHint(d) == <<0, None>>

WavCurrentFrameLen(d) == None
VorbisCurrentFrameLen(d) == Some(Remaining(d.reader))
FlacCurrentFrameLen(d) == None

WavChannels(d) == d.channels
VorbisChannels(d) == d.channels
FlacChannels(d) == d.channels

WavSamplesRate(d) == d.rate
VorbisSamplesRate(d) == d.rate
FlacSamplesRate(d) == d.rate

\* microseconds; Vorbis and FLAC report no duration
WavTotalDuration(d) == Some((d.frames * 1000000) \div d.rate)
VorbisTotalDuration(d) == None
FlacTotalDuration(d) == None

\* ------------------------------------------------------------- DecoderImpl
Variants == {"Wav", "Vorbis", "Flac"}
DecoderImplWav(d) == [tag |-> "Wav", source |-> d]
DecoderImplVorbis(d) == [tag |-> "Vorbis", source |-> d]
DecoderImplFlac(d) == [tag |-> "Flac", source |-> d]
\* no Decoder has been built (yet)
NoDecoder == [tag |-> "None"]

DecoderError == {"UnrecognizedFormat"}

\* ------------------------------------------------------------- Decoder::new
\* `data` is the local of Decoder::new: <<reader>> while it owns the input,
\* <<>> once the input has been moved into a decoder or dropped.

\* bug: the Ok arm does not return, the input goes on to the next probe
MatchWavFallThrough(data) ==
    [returned |-> FALSE, decoder |-> NoDecoder, data |-> <<data>>]

\* bug: the input handed on after the WAV probe declined has one byte consumed
MatchWavSniffed(data) ==
    LET r == WavDecoderNew(data)
    IN  IF r.ok
        THEN [returned |-> TRUE, decoder |-> DecoderImplWav(r.val), data |-> <<>>]
        ELSE [returned |-> FALSE, decoder |-> NoDecoder, data |-> <<ReadByte(r.val).reader>>]

\* let data = match wav::WavDecoder::new(data) { Err(data) => data, Ok(decoder) => return .. }
MatchWav(data) ==
    LET r == WavDecoderNew(data)
    IN  IF r.ok
        THEN [returned |-> TRUE, decoder |-> DecoderImplWav(r.val), data |-> <<>>]
        ELSE [returned |-> FALSE, decoder |-> NoDecoder, data |-> <<r.val>>]

\* bug: the input handed on after the FLAC probe declined is where the probe left it
MatchFlacNoRewind(data) ==
    LET r == FlacDecoderNew(data)
    IN  IF r.ok
        THEN [returned |-> TRUE, decoder |-> DecoderImplFlac(r.val), data |-> <<>>]
        ELSE [returned |-> FALSE, decoder |-> NoDecoder,
              data |-> <<ReadByte(ReadByte(r.val).reader).reader>>]

\* bug: Decoder::new keeps the input it has given to the FLAC decoder
MatchFlacKeepsData(data) ==
    LET r == FlacDecoderNew(data)
    IN  IF r.ok
        THEN [returned |-> TRUE, decoder |-> DecoderImplFlac(r.val), data |-> <<data>>]
        ELSE [returned |-> FALSE, decoder |-> NoDecoder, data |-> <<r.val>>]

\* let data = match flac::FlacDecoder::new(data) { Err(data) => data, Ok(decoder) => return .. }
MatchFlac(data) ==
    LET r == FlacDecoderNew(data)
    IN  IF r.ok
        THEN [returned |-> TRUE, decoder |-> DecoderImplFlac(r.val), data |-> <<>>]
        ELSE [returned |-> FALSE, decoder |-> NoDecoder, data |-> <<r.val>>]

\* bug: the Vorbis decoder is built and not returned
MatchVorbisNoReturn(data) ==
    [result |-> "UnrecognizedFormat", decoder |-> NoDecoder]

\* if let Ok(decoder) = vorbis::VorbisDecoder::new(data) { return .. }
\* Err(DecoderError::UnrecognizedFormat)
MatchVorbis(data) ==
    LET r == VorbisDecoderNew(data)
    IN  IF r.ok
        THEN [result |-> "Ok", decoder |-> DecoderImplVorbis(r.val)]
        ELSE [result |-> "UnrecognizedFormat", decoder |-> NoDecoder]

\* bug: the facade rewinds the input when the concrete decoder is exhausted
DecoderNextRestart(self) ==
    LET r == CASE self.tag = "Wav" -> WavNext(self.source)
               [] self.tag = "Vorbis" -> VorbisNext(self.source)
               [] self.tag = "Flac" -> FlacNext(self.source)
    IN  IF r.ret = None
        THEN [ret |-> None,
              self |-> [self EXCEPT !.source = [r.source EXCEPT !.reader = SeekStart(@, 0)]]]
        ELSE [ret |-> r.ret, self |-> [self EXCEPT !.source = r.source]]

\* ------------------------------------------------------------- Iterator for Decoder
\* [ret |-> Option<i16>, self |-> the Decoder afterwards]
DecoderNext(self) ==
    CASE self.tag = "Wav" ->
           LET r == WavNext(self.source)
           IN  [ret |-> r.ret, self |-> [self EXCEPT !.source = r.source]]
      [] self.tag = "Vorbis" ->
           LET r == VorbisNext(self.source)
           IN  [ret |-> r.ret, self |-> [self EXCEPT !.source = r.source]]
      [] self.tag = "Flac" ->
           LET r == FlacNext(self.source)
           IN  [ret |-> r.ret, self |-> [self EXCEPT !.source = r.source]]

\* bug: size_hint is not forwarded (the default of Iterator)
DecoderSizeHintDefault(self) == <<0, None>>

DecoderSizeHint(self) ==
    CASE self.tag = "Wav" -> WavSizeHint(self.source)
      [] self.tag = "Vorbis" -> VorbisSizeHint(self.source)
      [] self.tag = "Flac" -> FlacSizeHint(self.source)

\* ------------------------------------------------------------- Source for Decoder
DecoderCurrentFrameLen(self) ==
    CASE self.tag = "Wav" -> WavCurrentFrameLen(self.source)
      [] self.tag = "Vorbis" -> VorbisCurrentFrameLen(self.source)
      [] self.tag = "Flac" -> FlacCurrentFrameLen(self.source)

\* bug: channels() forwards to the lower size hint
DecoderChannelsAsSizeHint(self) == DecoderSizeHint(self)[1]

\* bug: channels() forwards to samples_rate()
DecoderChannelsAsRate(self) ==
    CASE self.tag = "Wav" -> WavSamplesRate(self.source)
      [] self.tag = "Vorbis" -> VorbisSamplesRate(self.source)
      [] self.tag = "Flac" -> FlacSamplesRate(self.source)

DecoderChannels(self) ==
    CASE self.tag = "Wav" -> WavChannels(self.source)
      [] self.tag = "Vorbis" -> VorbisChannels(self.source)
      [] self.tag = "Flac" -> FlacChannels(self.source)

DecoderSamplesRate(self) ==
    CASE self.tag = "Wav" -> WavSamplesRate(self.source)
      [] self.tag = "Vorbis" -> VorbisSamplesRate(self.source)
      [] self.tag = "Flac" -> FlacSamplesRate(self.source)

DecoderTotalDuration(self) ==
    CASE self.tag = "Wav" -> WavTotalDuration(self.source)
      [] self.tag = "Vorbis" -> VorbisTotalDuration(self.source)
      [] self.tag = "Flac" -> FlacTotalDuration(self.source)

\* ------------------------------------------------------------- state
VARIABLES
    input,      \* the bytes every caller supplies
    pc,         \* per copy: where its caller is
    data,       \* per copy: the local `data` of Decoder::new
    decoder,    \* per copy: the DecoderImpl of the returned Decoder
    result,     \* per copy: what Decoder::new returned
    probed,     \* per copy: the probes called, with the input each received
    out,        \* per copy: what the next() calls returned, in order
    last        \* the last facade call and its return value

vars == <<input, pc, data, decoder, result, probed, out, last>>

NoCall == [copy |-> 0, op |-> "none", val |-> None]

\* one caller holds its input and is about to call Decoder::new
Init ==
    /\ input \in Inputs
    /\ pc = [i \in Copies |-> IF i = 1 THEN "new_wav" ELSE "idle"]
    /\ data = [i \in Copies |-> IF i = 1 THEN <<Cursor(input)>> ELSE <<>>]
    /\ decoder = [i \in Copies |-> NoDecoder]
    /\ result = [i \in Copies |-> "Pending"]
    /\ probed = [i \in Copies |-> <<>>]
    /\ out = [i \in Copies |-> <<>>]
    /\ last = NoCall

\* two callers hold independent copies of the same bytes
InitTwin ==
    /\ input \in Inputs
    /\ pc = [i \in Copies |-> "new_wav"]
    /\ data = [i \in Copies |-> <<Cursor(input)>>]
    /\ decoder = [i \in Copies |-> NoDecoder]
    /\ result = [i \in Copies |-> "Pending"]
    /\ probed = [i \in Copies |-> <<>>]
    /\ out = [i \in Copies |-> <<>>]
    /\ last = NoCall

Probe(fmt, d, accepted) == [fmt |-> fmt, data |-> d, ok |-> accepted]

\* bug: the probes after WAV are tried in no fixed order
NewWavAnyOrder(i) ==
    /\ pc[i] = "new_wav"
    /\ LET m == MatchWav(Head(data[i]))
       IN  /\ probed' = [probed EXCEPT ![i] = Append(@, Probe("Wav", Head(data[i]), m.returned))]
           /\ data' = [data EXCEPT ![i] = m.data]
           /\ decoder' = [decoder EXCEPT ![i] = m.decoder]
           /\ result' = [result EXCEPT ![i] = IF m.returned THEN "Ok" ELSE "Pending"]
           /\ \E nxt \in {"new_flac", "new_vorbis"} :
                 pc' = [pc EXCEPT ![i] = IF m.returned THEN "done" ELSE nxt]
    /\ UNCHANGED <<input, out, last>>

\* Decoder::new, the WAV probe
NewWav(i) ==
    /\ pc[i] = "new_wav"
    /\ LET m == MatchWav(Head(data[i]))
       IN  /\ probed' = [probed EXCEPT ![i] = Append(@, Probe("Wav", Head(data[i]), m.returned))]
           /\ data' = [data EXCEPT ![i] = m.data]
           /\ decoder' = [decoder EXCEPT ![i] = m.decoder]
           /\ result' = [result EXCEPT ![i] = IF m.returned THEN "Ok" ELSE "Pending"]
           /\ pc' = [pc EXCEPT ![i] = IF m.returned THEN "done" ELSE "new_flac"]
    /\ UNCHANGED <<input, out, last>>

\* Decoder::new, the FLAC probe
NewFlac(i) ==
    /\ pc[i] = "new_flac"
    /\ LET m == MatchFlac(Head(data[i]))
       IN  /\ probed' = [probed EXCEPT ![i] = Append(@, Probe("Flac", Head(data[i]), m.returned))]
           /\ data' = [data EXCEPT ![i] = m.data]
           /\ decoder' = [decoder EXCEPT ![i] = m.decoder]
           /\ result' = [result EXCEPT ![i] = IF m.returned THEN "Ok" ELSE "Pending"]
           /\ pc' = [pc EXCEPT ![i] = IF m.returned THEN "done" ELSE "new_vorbis"]
    /\ UNCHANGED <<input, out, last>>

\* Decoder::new, the Vorbis probe and the final Err
NewVorbis(i) ==
    /\ pc[i] = "new_vorbis"
    /\ LET m == MatchVorbis(Head(data[i]))
       IN  /\ probed' = [probed EXCEPT ![i] = Append(@, Probe("Vorbis", Head(data[i]), m.result = "Ok"))]
           /\ data' = [data EXCEPT ![i] = <<>>]
           /\ decoder' = [decoder EXCEPT ![i] = m.decoder]
           /\ result' = [result EXCEPT ![i] = m.result]
           /\ pc' = [pc EXCEPT ![i] = "done"]
    /\ UNCHANGED <<input, out, last>>

Built(i) == pc[i] = "done" /\ result[i] = "Ok"
Nones(s) == Cardinality({k \in 1..Len(s) : s[k] = None})

\* Iterator::next on the Decoder
CallNext(i) ==
    /\ Built(i)
    /\ Nones(out[i]) < MaxNone
    /\ LET r == DecoderNext(decoder[i])
       IN  /\ decoder' = [decoder EXCEPT ![i] = r.self]
           /\ out' = [out EXCEPT ![i] = Append(@, r.ret)]
           /\ last' = [copy |-> i, op |-> "next", val |-> r.ret]
    /\ UNCHANGED <<input, pc, data, result, probed>>

\* the accessors take &self
CallSizeHint(i) ==
    /\ Built(i)
    /\ last' = [copy |-> i, op |-> "size_hint", val |-> DecoderSizeHint(decoder[i])]
    /\ UNCHANGED <<input, pc, data, decoder, result, probed, out>>

CallCurrentFrameLen(i) ==
    /\ Built(i)
    /\ last' = [copy |-> i, op |-> "current_frame_len", val |-> DecoderCurrentFrameLen(decoder[i])]
    /\ UNCHANGED <<input, pc, data, decoder, result, probed, out>>

CallChannels(i) ==
    /\ Built(i)
    /\ last' = [copy |-> i, op |-> "channels", val |-> DecoderChannels(decoder[i])]
    /\ UNCHANGED <<input, pc, data, decoder, result, probed, out>>

CallSamplesRate(i) ==
    /\ Built(i)
    /\ last' = [copy |-> i, op |-> "samples_rate", val |-> DecoderSamplesRate(decoder[i])]
    /\ UNCHANGED <<input, pc, data, decoder, result, probed, out>>

CallTotalDuration(i) ==
    /\ Built(i)
    /\ last' = [copy |-> i, op |-> "total_duration", val |-> DecoderTotalDuration(decoder[i])]
    /\ UNCHANGED <<input, pc, data, decoder, result, probed, out>>

Next ==
    \E i \in Copies :
        \/ NewWav(i)
        \/ NewFlac(i)
        \/ NewVorbis(i)
        \/ CallNext(i)
        \/ CallSizeHint(i)
        \/ CallCurrentFrameLen(i)
        \/ CallChannels(i)
        \/ CallSamplesRate(i)
        \/ CallTotalDuration(i)

Spec == Init /\ [][Next]_vars

\* the two constructions and their sample sequences, interleaved in any order
NextTwin ==
    \E i \in Copies :
        \/ NewWav(i)
        \/ NewFlac(i)
        \/ NewVorbis(i)
        \/ CallNext(i)

SpecTwin == InitTwin /\ [][NextTwin]_vars

\* ------------------------------------------------------------- properties
\* the caller's input as supplied: all its bytes, positioned at the start
Fresh == Cursor(input)
\* whether the probe of `fmt`, run alone on reader `d`, accepts
Accepts(fmt, d) ==
    CASE fmt = "Wav" -> WavDecoderNew(d).ok
      [] fmt = "Flac" -> FlacDecoderNew(d).ok
      [] fmt = "Vorbis" -> VorbisDecoderNew(d).ok
ProbeOrder == <<"Wav", "Flac", "Vorbis">>
\* the first probe in ProbeOrder that accepts the fresh input, "None" if none does
HighestAccepting ==
    IF \E k \in 1..Len(ProbeOrder) : Accepts(ProbeOrder[k], Fresh)
    THEN ProbeOrder[CHOOSE k \in 1..Len(ProbeOrder) :
                       /\ Accepts(ProbeOrder[k], Fresh)
                       /\ \A j \in 1..(k - 1) : ~Accepts(ProbeOrder[j], Fresh)]
    ELSE "None"
Somes(s) == Len(s) - Nones(s)

\* C1: Decoder::new calls the probes in the order WAV, FLAC, Vorbis, each at
\* most once and none after a probe accepted, and the variant it returns is
\* the first probe in that order that accepts the input.
C1_ProbeOrder ==
    \A i \in Copies :
        /\ Len(probed[i]) <= Len(ProbeOrder)
        /\ \A k \in 1..Len(probed[i]) :
              /\ probed[i][k].fmt = ProbeOrder[k]
              /\ k < Len(probed[i]) => ~probed[i][k].ok
        /\ pc[i] = "done" => decoder[i].tag = HighestAccepting
        /\ Built(i) => /\ probed[i][Len(probed[i])].ok
                       /\ probed[i][Len(probed[i])].fmt = decoder[i].tag

\* a FLAC decoder was returned for an input the Vorbis probe accepts as well
C1_Witness ==
    \E i \in Copies :
        /\ Built(i)
        /\ decoder[i].tag = "Flac"
        /\ Len(probed[i]) = 2
        /\ Accepts("Vorbis", Fresh)

\* C2: Decoder::new returns Err(UnrecognizedFormat) exactly when all three
\* probes decline the input; otherwise it returns Ok with a decoder built on
\* the input, and no decoder exists beside the error or before the return.
C2_ErrorIffAllDecline ==
    \A i \in Copies :
        /\ pc[i] # "done" => result[i] = "Pending" /\ decoder[i].tag = "None"
        /\ pc[i] = "done" =>
              /\ result[i] \in {"Ok"} \cup DecoderError
              /\ result[i] = "UnrecognizedFormat" <=>
                    \A k \in 1..Len(ProbeOrder) : ~Accepts(ProbeOrder[k], Fresh)
              /\ result[i] = "UnrecognizedFormat" => decoder[i].tag = "None"
              /\ result[i] = "Ok" => /\ decoder[i].tag \in Variants
                                     /\ decoder[i].source.reader.bytes = input
                                     /\ decoder[i].source.channels >= 1

\* the error was returned for an input that opens with the WAV signature
C2_Witness ==
    \E i \in Copies :
        /\ pc[i] = "done"
        /\ result[i] = "UnrecognizedFormat"
        /\ Len(probed[i]) = 3
        /\ Len(input) >= 2
        /\ input[1] = WavMagic

\* C3: every probe of one Decoder::new call receives the input as the caller
\* supplied it, the same bytes at the start position, and so does the local
\* `data` whenever a probe has handed the input back.
C3_ProbesGetOriginalInput ==
    \A i \in Copies :
        /\ \A k \in 1..Len(probed[i]) : probed[i][k].data = Fresh
        /\ data[i] # <<>> => Head(data[i]) = Fresh

\* the Vorbis probe ran after WAV and FLAC read and declined a longer input
C3_Witness ==
    \E i \in Copies :
        /\ Len(probed[i]) = 3
        /\ Len(input) >= 3
        /\ probed[i][3].data.pos = 0
        /\ probed[i][3].ok

\* C4: a probe called after others declined accepts or declines as it does
\* alone on a fresh copy; Decoder::new returns FLAC (Vorbis) exactly when the
\* FLAC (Vorbis) probe accepts a fresh copy and every earlier probe declines.
C4_NegativeProbesIndependent ==
    \A i \in Copies :
        /\ \A k \in 1..Len(probed[i]) :
              probed[i][k].ok = Accepts(probed[i][k].fmt, Fresh)
        /\ pc[i] = "done" =>
              /\ decoder[i].tag = "Flac" <=>
                    Accepts("Flac", Fresh) /\ ~Accepts("Wav", Fresh)
              /\ decoder[i].tag = "Vorbis" <=>
                    /\ Accepts("Vorbis", Fresh)
                    /\ ~Accepts("Wav", Fresh)
                    /\ ~Accepts("Flac", Fresh)

\* Vorbis was recognized behind junk after the WAV and FLAC probes declined
C4_Witness ==
    \E i \in Copies :
        /\ Built(i)
        /\ decoder[i].tag = "Vorbis"
        /\ input[1] # VorbisMagic
        /\ ~probed[i][1].ok
        /\ ~probed[i][2].ok

\* C5: in the results of the next() calls on a Decoder, no sample follows a
\* None: once exhausted, the Decoder stays exhausted.
C5_StaysExhausted ==
    \A i \in Copies :
        \A j, k \in 1..Len(out[i]) :
            j < k /\ out[i][j] = None => out[i][k] = None

\* a decoder gave a sample, then None twice, with input bytes still unread
C5_Witness ==
    \E i \in Copies :
        /\ Built(i)
        /\ Len(out[i]) >= 3
        /\ out[i][1] # None
        /\ out[i][Len(out[i]) - 1] = None
        /\ out[i][Len(out[i])] = None
        /\ Remaining(decoder[i].source.reader) > 0

\* C6: no step changes what channels(), samples_rate() and total_duration()
\* return on a built Decoder.
C6_MetadataFixed ==
    [][\A i \in Copies :
          (decoder[i].tag \in Variants /\ decoder'[i].tag \in Variants) =>
              /\ DecoderChannels(decoder'[i]) = DecoderChannels(decoder[i])
              /\ DecoderSamplesRate(decoder'[i]) = DecoderSamplesRate(decoder[i])
              /\ DecoderTotalDuration(decoder'[i]) = DecoderTotalDuration(decoder[i])]_vars

\* total_duration() was called after samples were read and None was returned
C6_Witness ==
    \E i \in Copies :
        /\ Built(i)
        /\ Somes(out[i]) >= 1
        /\ Nones(out[i]) >= 2
        /\ last.copy = i
        /\ last.op = "total_duration"
        /\ last.val # None

WellFormedWav(bytes) ==
    /\ Len(bytes) >= 3
    /\ bytes[1] = WavMagic
    /\ bytes[2] >= 1
    /\ Len(bytes) = 3 + FmtChannels(bytes[2]) * bytes[3]

\* C8: for a well-formed WAV input with C channels and F frames, the Decoder
\* is the WAV variant, channels() is C, and the results of next() are samples
\* up to call C * F and None from call C * F + 1 on.
C8_WavSampleCount ==
    \A i \in Copies :
        (Built(i) /\ WellFormedWav(input)) =>
            /\ decoder[i].tag = "Wav"
            /\ DecoderChannels(decoder[i]) = FmtChannels(input[2])
            /\ \A k \in 1..Len(out[i]) :
                  out[i][k] = None <=> k > FmtChannels(input[2]) * input[3]

\* a WAV input of 2 channels and 1 frame gave 2 samples and then None
C8_Witness ==
    \E i \in Copies :
        /\ Built(i)
        /\ WellFormedWav(input)
        /\ FmtChannels(input[2]) = 2
        /\ input[3] = 1
        /\ Somes(out[i]) = 2
        /\ Nones(out[i]) >= 1

\* C9: each facade call returns what the same operation of the active
\* concrete decoder returns on its state, next() leaves the concrete decoder
\* as the concrete next() does, and the other calls leave the Decoder as it is.
C9_PureForwarding ==
    [][\A i \in Copies :
          LET tag == decoder[i].tag
              src == decoder[i].source
              concrete(wav, vorbis, flac) ==
                  CASE tag = "Wav" -> wav
                    [] tag = "Vorbis" -> vorbis
                    [] tag = "Flac" -> flac
              called(op) == Built(i) /\ last'.copy = i /\ last'.op = op
          IN  /\ (called("next") /\ out'[i] # out[i]) =>
                    /\ last'.val = concrete(WavNext(src).ret, VorbisNext(src).ret,
                                            FlacNext(src).ret)
                    /\ out'[i] = Append(out[i], last'.val)
                    /\ decoder'[i].tag = tag
                    /\ decoder'[i].source = concrete(WavNext(src).source,
                                                     VorbisNext(src).source,
                                                     FlacNext(src).source)
              /\ called("size_hint") =>
                    /\ last'.val = concrete(WavSizeHint(src), VorbisSizeHint(src),
                                            FlacSizeHint(src))
                    /\ decoder'[i] = decoder[i]
              /\ called("current_frame_len") =>
                    /\ last'.val = concrete(WavCurrentFrameLen(src),
                                            VorbisCurrentFrameLen(src),
                                            FlacCurrentFrameLen(src))
                    /\ decoder'[i] = decoder[i]
              /\ called("channels") =>
                    /\ last'.val = concrete(WavChannels(src), VorbisChannels(src),
                                            FlacChannels(src))
                    /\ decoder'[i] = decoder[i]
              /\ called("samples_rate") =>
                    /\ last'.val = concrete(WavSamplesRate(src), VorbisSamplesRate(src),
                                            FlacSamplesRate(src))
                    /\ decoder'[i] = decoder[i]
              /\ called("total_duration") =>
                    /\ last'.val = concrete(WavTotalDuration(src),
                                            VorbisTotalDuration(src),
                                            FlacTotalDuration(src))
                    /\ decoder'[i] = decoder[i]]_vars

\* size_hint() on a WAV decoder with samples read and samples left
C9_Witness ==
    \E i \in Copies :
        /\ Built(i)
        /\ decoder[i].tag = "Wav"
        /\ Somes(out[i]) >= 1
        /\ last.copy = i
        /\ last.op = "size_hint"
        /\ last.val = <<1, Some(1)>>

\* who holds the input of copy i: the local of Decoder::new, a decoder, or both
Holders(i) ==
    (IF data[i] # <<>> THEN {"new"} ELSE {})
        \cup (IF decoder[i].tag # "None" THEN {decoder[i].tag} ELSE {})

OneOwner ==
    \A i \in Copies :
        /\ pc[i] \in {"new_wav", "new_flac", "new_vorbis"} => Holders(i) = {"new"}
        /\ Built(i) => /\ decoder[i].tag \in Variants
                       /\ Holders(i) = {decoder[i].tag}
                       /\ decoder[i].source.reader.bytes = input
        /\ (pc[i] = "done" /\ result[i] # "Ok") => Holders(i) = {}

\* C10: while Decoder::new runs its local holds the input and no decoder
\* does; a built Decoder has exactly one variant, which alone holds the input;
\* and no step changes the variant of a built Decoder.
C10_OneActiveOwner ==
    /\ []OneOwner
    /\ [][\A i \in Copies :
             decoder[i].tag \in Variants => decoder'[i].tag = decoder[i].tag]_vars

\* a Vorbis decoder, picked by the last probe, after next() and metadata calls
C10_Witness ==
    \E i \in Copies :
        /\ Built(i)
        /\ decoder[i].tag = "Vorbis"
        /\ Len(out[i]) >= 2
        /\ last.copy = i
        /\ last.op = "channels"

====
